---- MODULE Spec2Model ----
(***************************************************************************)
(* A model of the coney/jackrabbit RPC server: the handler registry built  *)
(* by Server.register_handler, the per-method dispatcher callback created  *)
(* by Server._register_handler, and Request.loads.                         *)
(*                                                                         *)
(* Python values.  An attribute that may be None is a sequence of length   *)
(* at most one: None is <<>> and the value v is <<v>>, so that the empty   *)
(* string <<"">> and None are different values, as they are in Python.     *)
(* A dict is the set of its <<key, value>> pairs, except for the registry  *)
(* (self._queues), which is a function from method names to functions from *)
(* versions to handlers.  An exception is a record carrying its class, the *)
(* text str() gives for it and the attributes its class defines.           *)
(***************************************************************************)
EXTENDS Integers, Sequences, FiniteSets, TLC

\* ------------------------------------------------------------------ bounds

\* The number of messages the broker delivers in one behaviour.
MaxMsgs == 2
\* The number of (method, version) entries the application registers.
MaxRegs == 3

\* ------------------------------------------------------------ input domains

Methods == {"echo", "add"}
Versions == {1, 2}
\* What a caller may pass as fn: two invocable handlers and one object that
\* is not invocable.
Callables == {"h1", "h2"}
Handlers == Callables \cup {"not_callable"}

None == <<>>
Some(v) == <<v>>

\* Server.__init__'s default prefetch_count.
prefetch_count == 1

\* ------------------------------------------------------------ response codes

SUCCESS == "SUCCESS"
MALFORMED_REQUEST == "MALFORMED_REQUEST"
METHOD_NOT_FOUND == "METHOD_NOT_FOUND"
VERSION_NOT_FOUND == "VERSION_NOT_FOUND"
UNEXPECTED_DISPATCH_EXCEPTION == "UNEXPECTED_DISPATCH_EXCEPTION"

\* ---------------------------------------------------------------- exceptions

\* An exception object: its class, str(ex), and the attributes code and
\* _details where the class sets them ("" where it does not).
Exc(cls, str, code, details) ==
    [cls |-> cls, str |-> str, code |-> code, _details |-> details]

NoExc == Exc("", "", "", "")

\* The classes an exception class derives from, itself included.
Bases(cls) ==
    CASE cls = "MalformedRequestException" ->
             {cls, "ConeyException", "Exception", "BaseException"}
      [] cls = "RemoteExecErrorException" ->
             {cls, "ConeyException", "Exception", "BaseException"}
      [] cls = "DispatchHandlerException" ->
             {cls, "ConeyException", "Exception", "BaseException"}
      [] cls \in {"ValueError", "TypeError", "AttributeError", "AssertionError"} ->
             {cls, "Exception", "BaseException"}
      [] OTHER -> {cls, "BaseException"}

IsInstance(ex, cls) == cls \in Bases(ex.cls)

\* MalformedRequestException(serializer_name, request): __init__ keeps both
\* arguments and does not call the base __init__, so str(ex) is the text of
\* the argument tuple BaseException.__new__ stored, which is never empty.
MalformedRequestException ==
    Exc("MalformedRequestException", "(serializer.__name__, s)", "", "")

\* RemoteExecErrorException(details): __init__ sets self._details and nothing
\* else.
RemoteExecErrorException(details) ==
    Exc("RemoteExecErrorException", details, "", details)

\* The attributes an instance of the class has besides those of BaseException.
InstanceAttrs(cls) ==
    CASE cls = "MalformedRequestException" -> {"_serializer_name", "_request"}
      [] cls = "RemoteExecErrorException" -> {"_details"}
      [] cls = "RemoteUnhandledExceptionException" -> {"_details"}
      [] cls = "DispatchHandlerException" -> {"code"}
      [] OTHER -> {}

HasAttr(ex, name) == name \in InstanceAttrs(ex.cls)

\* DispatchHandlerException(code), as the dispatcher raises and reads it.
DispatchHandlerException(code) ==
    Exc("DispatchHandlerException", code, code, "")

\* ------------------------------------------------------------------ envelope

\* A byte payload, by what the serializer makes of it: parse is "ok" when
\* serializer.loads returns a structure (of the given kind, with the given
\* top-level items when it is a list) and otherwise the class of the
\* exception serializer.loads raises.
Packed(kind, items) == [parse |-> "ok", kind |-> kind, items |-> items]
Garbage == [parse |-> "ValueError", kind |-> "none", items |-> <<>>]

\* serializer.dumps of a list, and serializer.loads: the structure a payload
\* parses to, or the exception class raised.
serializer_dumps(l) == Packed("list", l)
serializer_loads(s) == [kind |-> s.kind, items |-> s.items]

\* The compressor (NullCompressor by default) leaves the bytes as they are.
compress(b) == b
decompress(b) == b

Request(version, metadata, arguments) ==
    [version |-> version, metadata |-> metadata, arguments |-> arguments]

NoRequest == Request(0, {}, {})

\* The outcome of a call: a returned value or a raised exception.
Return(v) == [kind |-> "return", value |-> v, exc |-> NoExc]
Raise(ex) == [kind |-> "raise", value |-> None, exc |-> ex]
RaiseLoads(ex) == [kind |-> "raise", value |-> NoRequest, exc |-> ex]

\* l[0:3]: the first three items of a list (all of them when it has fewer).
Slice03(items) ==
    SubSeq(items, 1, IF Len(items) < 3 THEN Len(items) ELSE 3)

\* A loads that fills the items a short list lacks with empty ones instead
\* of failing.
Request_loads_Lenient(s) ==
    IF s.parse # "ok" \/ s.kind # "list"
    THEN Return(NoRequest)
    ELSE LET t == Slice03(s.items) IN
         Return(Request(IF Len(t) >= 1 THEN t[1] ELSE 0,
                        IF Len(t) >= 2 THEN t[2] ELSE {},
                        IF Len(t) >= 3 THEN t[3] ELSE {}))

\* Request.loads(s, serializer).
Request_loads(s) ==
    IF s.parse \in {"ValueError", "TypeError"}
    THEN RaiseLoads(MalformedRequestException)
    ELSE IF s.parse # "ok"
    THEN RaiseLoads(Exc(s.parse, "unpack failed", "", ""))
    ELSE LET l == serializer_loads(s) IN
         IF l.kind # "list"
         THEN \* l[0:3] on an object that cannot be sliced: TypeError, which
              \* the except ValueError clause does not catch.
              RaiseLoads(Exc("TypeError", "object is not subscriptable", "", ""))
         ELSE LET t == Slice03(l.items) IN
              IF Len(t) # 3
              THEN RaiseLoads(MalformedRequestException)
              ELSE Return(Request(t[1], t[2], t[3]))

\* A dumps that writes the arguments before the metadata.
Request_dumps_Swapped(r) == serializer_dumps(<<r.version, r.arguments, r.metadata>>)

\* Request.dumps(serializer).
Request_dumps(r) == serializer_dumps(<<r.version, r.metadata, r.arguments>>)

\* Response(value, code=SUCCESS, details=None) and Response.dumps.
Response(value, code, details) ==
    [value |-> value, code |-> code, details |-> details]
Response_dumps(resp) == serializer_dumps(<<resp.value, resp.code, resp.details>>)
NoResponse == Response(None, "", None)

\* The payloads the broker may deliver.
Args == {<<"x", 42>>}
Bodies ==
    { Garbage,
      Packed("int", <<>>),
      Packed("list", <<1, {}>>),
      Packed("list", <<1, {}, Args>>),
      Packed("list", <<2, {}, Args>>),
      Packed("list", <<1, {}, {}>>) }

\* --------------------------------------------------------------------- state

VARIABLES
    queues,      \* self._queues: method name -> (version -> handler)
    bindings,    \* method name -> number of queue_declare + basic_consume made
    regResult,   \* how the register_handler call just made ended ("none"
                 \* when the latest step is not such a call)
    phase,       \* "setup", "consuming" (inside run()), "stopped" (run() raised)
    pc,          \* the position of the dispatcher callback
    delivered,   \* the messages handed to a dispatcher, by delivery tag
    method_name, \* the closure variable of the dispatcher that is running
    raw_body,    \* the payload of the message being dispatched
    request,     \* the dispatcher's local: the decoded Request
    fn,          \* the dispatcher's local: the looked-up handler
    resp,        \* the dispatcher's local: the Response built
    invoked,     \* the handler invocations made, in order
    published,   \* what ch.basic_publish was called with, in order
    acked,       \* the delivery tags ch.basic_ack was called with, in order
    escaped,     \* the exception that left the dispatcher callback, if any
    codec        \* a Request, a payload and the outcome of Request.loads on
                 \* it, for the envelope's encode and decode taken alone

vars == <<queues, bindings, regResult, phase, pc, delivered, method_name,
          raw_body, request, fn, resp, invoked, published, acked, escaped,
          codec>>

registryVars == <<queues, bindings>>
brokerVars == <<delivered, published, acked>>
localVars == <<method_name, raw_body, request, fn, resp>>

EmptyDict == [k \in {} |-> 0]

\* No Request.loads call made yet.
NoLoad == RaiseLoads(NoExc)

NoCodec == [pc |-> "none", request |-> NoRequest, payload |-> Garbage,
            result |-> NoLoad]

\* The server as Server.__init__ leaves it.
InitServer ==
    /\ queues = EmptyDict
    /\ bindings = [m \in Methods |-> 0]
    /\ regResult = "none"
    /\ phase = "setup"
    /\ pc = "idle"
    /\ delivered = <<>>
    /\ method_name = ""
    /\ raw_body = Garbage
    /\ request = NoRequest
    /\ fn = ""
    /\ resp = NoResponse
    /\ invoked = <<>>
    /\ published = <<>>
    /\ acked = <<>>
    /\ escaped = NoExc

Init ==
    /\ InitServer
    /\ codec = NoCodec

\* ------------------------------------------------------------- registration

\* The (method, version) pairs that have a handler.
Entries(q) == {<<k, v>> \in Methods \X Versions : k \in DOMAIN q /\ v \in DOMAIN q[k]}

\* utils.is_callable(fn).
is_callable(f) == f \in Callables

\* A first registration that declares the queue without writing the
\* registry entry.
SetMethod_Dropped(q, name, version, f) == q

\* self._queues[method_name] = {version: fn}
SetMethod(q, name, version, f) ==
    [k \in DOMAIN q \cup {name} |->
        IF k = name THEN [v \in {version} |-> f] ELSE q[k]]

\* self._queues[method_name][version] = fn
SetVersion(q, name, version, f) ==
    [k \in DOMAIN q |->
        IF k = name
        THEN [v \in DOMAIN q[k] \cup {version} |->
                 IF v = version THEN f ELSE q[k][v]]
        ELSE q[k]]

\* Server._register_handler(method_name): queue_declare and basic_consume of
\* a new dispatcher closure for method_name.
_register_handler(b, name) ==
    [b EXCEPT ![name] = @ + 1]

\* How a register_handler call ends: "returned", or the class of the
\* exception it raises to its caller.
\*   - a handler that is not callable: HandlerNotCallableException;
\*   - method and version both registered: logger.warn(...) returns None and
\*     None.format(...) raises AttributeError inside the try block, which the
\*     except KeyError clause does not catch; the else clause does not run.
register_handler_result(q, name, version, f) ==
    IF ~is_callable(f) THEN "HandlerNotCallableException"
    ELSE IF name \in DOMAIN q /\ version \in DOMAIN q[name]
    THEN "AttributeError"
    ELSE "returned"

\* A registration that stores the handler without testing that it is
\* callable.
register_handler_queues_Unchecked(q, name, version, f) ==
    IF name \notin DOMAIN q
    THEN SetMethod(q, name, version, f)
    ELSE SetVersion(q, name, version, f)

\* self._queues after register_handler(method_name, version, fn).
register_handler_queues(q, name, version, f) ==
    IF ~is_callable(f) THEN q
    ELSE IF name \notin DOMAIN q
    THEN SetMethod(q, name, version, f)
    ELSE IF version \in DOMAIN q[name]
    THEN q
    ELSE SetVersion(q, name, version, f)

\* A registration that declares the queue and a consumer on every call that
\* stores a handler, not only on the first one for the method name.
register_handler_bindings_EveryCall(q, b, name, version, f) ==
    IF is_callable(f) /\ <<name, version>> \notin Entries(q)
    THEN _register_handler(b, name)
    ELSE b

\* The bindings after register_handler(method_name, version, fn).
register_handler_bindings(q, b, name, version, f) ==
    IF is_callable(f) /\ name \notin DOMAIN q
    THEN _register_handler(b, name)
    ELSE b

\* Server.register_handler(method_name, version, fn), called by the
\* application before it calls run().
register_handler(name, version, f) ==
    /\ phase = "setup"
    /\ Cardinality(Entries(register_handler_queues(queues, name, version, f))) <= MaxRegs
    /\ queues' = register_handler_queues(queues, name, version, f)
    /\ bindings' = register_handler_bindings(queues, bindings, name, version, f)
    /\ regResult' = register_handler_result(queues, name, version, f)
    /\ UNCHANGED <<phase, pc, brokerVars, localVars, invoked, escaped, codec>>

\* Server.run(): the consume loop starts.
run ==
    /\ phase = "setup"
    /\ phase' = "consuming"
    /\ regResult' = "none"
    /\ UNCHANGED <<registryVars, pc, brokerVars, localVars, invoked, escaped, codec>>

\* ---------------------------------------------------------------- dispatcher

\* A Request object defines neither __nonzero__ nor __len__: it is true.
bool(r) == TRUE

RaiseLookup(ex) == [kind |-> "raise", value |-> "", exc |-> ex]

\* Lines 37-41: decompress, Request.loads, the test of its result.
TryDecode(body) ==
    LET r == Request_loads(decompress(body)) IN
    IF r.kind = "raise" THEN r
    ELSE IF ~bool(r.value)
    THEN RaiseLoads(DispatchHandlerException(MALFORMED_REQUEST))
    ELSE r

\* A look-up that falls back to another version of the method when the
\* declared one has no handler.
TryLookup_AnyVersion(q, name, version) ==
    IF name \notin DOMAIN q
    THEN RaiseLookup(DispatchHandlerException(METHOD_NOT_FOUND))
    ELSE LET v == IF version \in DOMAIN q[name] THEN version
                  ELSE CHOOSE w \in DOMAIN q[name] : TRUE
         IN [kind |-> "return", value |-> q[name][v], exc |-> NoExc]

\* Lines 43-52: the look-up of the version's handler in self._queues.
TryLookup(q, name, version) ==
    IF name \notin DOMAIN q
    THEN RaiseLookup(DispatchHandlerException(METHOD_NOT_FOUND))
    ELSE IF version \notin DOMAIN q[name]
    THEN RaiseLookup(DispatchHandlerException(VERSION_NOT_FOUND))
    ELSE [kind |-> "return", value |-> q[name][version], exc |-> NoExc]

\* The named parameters of the registered handlers: each is fn(x).
Params(f) == {"x"}
Keys(d) == {kv[1] : kv \in d}
Get(d, k) == (CHOOSE kv \in d : kv[1] = k)[2]

\* What a handler's body may do when it runs: return its argument, signal a
\* remote-execution error, or fail an assertion that has no message (str(ex)
\* is then "").
HandlerOutcomes(kwargs) ==
    { Return(Some(Get(kwargs, "x"))),
      Raise(RemoteExecErrorException("denied")),
      Raise(Exc("AssertionError", "", "", "")) }

\* Line 54: fn(**request.arguments).  Keyword arguments that do not match the
\* handler's parameters raise TypeError before the handler's body runs.
Call(f, kwargs) ==
    IF Keys(kwargs) # Params(f)
    THEN {Raise(Exc("TypeError", "fn() takes exactly 1 argument (0 given)", "", ""))}
    ELSE HandlerOutcomes(kwargs)

\* A success Response that leaves the return value out.
SuccessResponse_NoValue(return_value) == Response(None, SUCCESS, None)

\* Line 56: Response(return_value), with the default code and details.
SuccessResponse(return_value) == Response(return_value, SUCCESS, None)

Built(r) == [kind |-> "resp", resp |-> r, exc |-> NoExc]
Escapes(ex) == [kind |-> "raise", resp |-> NoResponse, exc |-> ex]

\* An except DispatchHandlerException clause that puts the code in the value
\* as well.
OnDispatchHandlerException_WithValue(ex) ==
    Built(Response(Some(ex.code), ex.code, None))

\* Lines 57-61: except DispatchHandlerException.
OnDispatchHandlerException(ex) == Built(Response(None, ex.code, None))

\* Lines 62-64: except RemoteExecErrorException.  The log call reads ex.value
\* and ex.details before resp is assigned; an attribute the exception does
\* not have raises AttributeError from inside the except clause, which no
\* later clause of the same try statement catches.
OnRemoteExecErrorException(ex) ==
    IF ~(HasAttr(ex, "value") /\ HasAttr(ex, "details"))
    THEN Escapes(Exc("AttributeError",
                     "'RemoteExecErrorException' object has no attribute 'value'",
                     "", ""))
    ELSE Built(Response(None, ex.code, Some(ex._details)))

\* An except Exception clause that leaves the details out.
OnException_NoDetails(ex) ==
    Built(Response(None, UNEXPECTED_DISPATCH_EXCEPTION, None))

\* Lines 65-68: except Exception.
OnException(ex) ==
    Built(Response(None, UNEXPECTED_DISPATCH_EXCEPTION, Some(ex.str)))

\* Lines 57-68: the except clauses, tried in order; an exception none of
\* them matches leaves the callback.
ExceptClauses(ex) ==
    IF IsInstance(ex, "DispatchHandlerException") THEN OnDispatchHandlerException(ex)
    ELSE IF IsInstance(ex, "RemoteExecErrorException") THEN OnRemoteExecErrorException(ex)
    ELSE IF IsInstance(ex, "Exception") THEN OnException(ex)
    ELSE Escapes(ex)

\* The message being dispatched.
cur == delivered[Len(delivered)]

\* The reply address and correlation token of the n-th message: every call
\* comes with its own.
ReplyTo(n) == <<"reply", n>>
CorrelationId(n) == <<"corr", n>>

\* A publish that addresses every reply with the properties of the first
\* message the channel delivered.
basic_publish_FirstProps(msg, r) ==
    [delivery_tag |-> msg.delivery_tag,
     routing_key |-> delivered[1].reply_to,
     correlation_id |-> delivered[1].correlation_id,
     body |-> compress(Response_dumps(r))]

\* Lines 72-79: the arguments of ch.basic_publish (delivery_tag is not an
\* argument: it records which callback invocation made the call).
basic_publish(msg, r) ==
    [delivery_tag |-> msg.delivery_tag,
     routing_key |-> msg.reply_to,
     correlation_id |-> msg.correlation_id,
     body |-> compress(Response_dumps(r))]

\* The try statement ended with the exception ex raised in its body.
Failed(ex) ==
    LET h == ExceptClauses(ex) IN
    IF h.kind = "resp"
    THEN /\ resp' = h.resp
         /\ pc' = "FAILED"
         /\ UNCHANGED <<phase, escaped>>
    ELSE \* The exception propagates through start_consuming out of run().
         /\ pc' = "RAISED"
         /\ phase' = "stopped"
         /\ escaped' = h.exc
         /\ UNCHANGED resp

\* The broker hands a message of a bound queue to that queue's dispatcher.
\* It holds back while prefetch_count messages are unacknowledged.
Deliver(queue, body) ==
    /\ phase = "consuming"
    /\ pc \in {"idle", "ACKNOWLEDGED"}
    /\ bindings[queue] > 0
    /\ Len(delivered) < MaxMsgs
    /\ Len(delivered) - Len(acked) < prefetch_count
    /\ delivered' = Append(delivered,
           [delivery_tag |-> Len(delivered) + 1,
            reply_to |-> ReplyTo(Len(delivered) + 1),
            correlation_id |-> CorrelationId(Len(delivered) + 1)])
    /\ method_name' = queue
    /\ raw_body' = body
    /\ request' = NoRequest
    /\ fn' = ""
    /\ resp' = NoResponse
    /\ pc' = "RECEIVED"
    /\ UNCHANGED <<registryVars, regResult, phase, invoked, published, acked, escaped, codec>>

\* Lines 37-41.
Decode ==
    /\ pc = "RECEIVED"
    /\ LET r == TryDecode(raw_body) IN
       IF r.kind = "return"
       THEN /\ request' = r.value
            /\ pc' = "DECODED"
            /\ UNCHANGED <<resp, phase, escaped>>
       ELSE /\ Failed(r.exc)
            /\ UNCHANGED request
    /\ UNCHANGED <<registryVars, regResult, brokerVars, method_name, raw_body, fn, invoked, codec>>

\* Lines 43-52.
Resolve ==
    /\ pc = "DECODED"
    /\ LET r == TryLookup(queues, method_name, request.version) IN
       IF r.kind = "return"
       THEN /\ fn' = r.value
            /\ pc' = "RESOLVED"
            /\ UNCHANGED <<resp, phase, escaped>>
       ELSE /\ Failed(r.exc)
            /\ UNCHANGED fn
    /\ UNCHANGED <<registryVars, regResult, brokerVars, method_name, raw_body, request, invoked, codec>>

\* Lines 54-56.
Execute ==
    /\ pc = "RESOLVED"
    /\ \E r \in Call(fn, request.arguments) :
          /\ invoked' = Append(invoked,
                 [delivery_tag |-> cur.delivery_tag, fn |-> fn, result |-> r])
          /\ IF r.kind = "return"
             THEN /\ resp' = SuccessResponse(r.value)
                  /\ pc' = "EXECUTED"
                  /\ UNCHANGED <<phase, escaped>>
             ELSE Failed(r.exc)
    /\ UNCHANGED <<registryVars, regResult, brokerVars, method_name, raw_body, request, fn, codec>>

\* Lines 70-79.
Publish ==
    /\ pc \in {"EXECUTED", "FAILED"}
    /\ published' = Append(published, basic_publish(cur, resp))
    /\ pc' = "REPLIED"
    /\ UNCHANGED <<registryVars, regResult, phase, delivered, acked, localVars, invoked, escaped, codec>>

\* An acknowledgement made as soon as the Response is built, before it is
\* published.
Ack_BeforePublish ==
    /\ pc \in {"EXECUTED", "FAILED"}
    /\ \A i \in 1..Len(acked) : acked[i] # cur.delivery_tag
    /\ acked' = Append(acked, cur.delivery_tag)
    /\ UNCHANGED <<registryVars, regResult, phase, pc, delivered, published,
                   localVars, invoked, escaped, codec>>

\* Lines 81-82, and the return of the callback.
Ack ==
    /\ pc = "REPLIED"
    /\ acked' = Append(acked, cur.delivery_tag)
    /\ pc' = "ACKNOWLEDGED"
    /\ UNCHANGED <<registryVars, regResult, phase, delivered, published, localVars, invoked, escaped, codec>>

Next ==
    \/ \E m \in Methods, v \in Versions, f \in Handlers : register_handler(m, v, f)
    \/ run
    \/ \E q \in Methods, b \in Bodies : Deliver(q, b)
    \/ Decode
    \/ Resolve
    \/ Execute
    \/ Publish
    \/ Ack

Spec == Init /\ [][Next]_vars

\* ------------------------------------------------------------- observations

Tags == 1..Len(delivered)

\* The callback invocation for the message with delivery tag t has ended,
\* by returning or by raising.
Finished(t) == t < Len(delivered) \/ pc \in {"ACKNOWLEDGED", "RAISED"}

\* The publications and handler invocations made for the message t.
PublishedFor(t) == {i \in 1..Len(published) : published[i].delivery_tag = t}
InvokedFor(t) == {i \in 1..Len(invoked) : invoked[i].delivery_tag = t}
Acked(t) == \E i \in 1..Len(acked) : acked[i] = t

\* The Response a published body holds.
ResponseOf(p) ==
    Response(p.body.items[1], p.body.items[2], p.body.items[3])

\* The message t got exactly one reply, and that reply is r.
RepliedWith(t, r) ==
    /\ Cardinality(PublishedFor(t)) = 1
    /\ \A i \in PublishedFor(t) : ResponseOf(published[i]) = r

\* -------------------------------------------------------------------- claims

\* C1: every message handed to a dispatcher gets exactly one Response
\* published and is then acknowledged, whatever the outcome of decoding,
\* look-up and invocation; no message is acknowledged without its reply.
C1_RepliedOnceThenAcked ==
    \A t \in Tags :
        /\ Finished(t) => (Cardinality(PublishedFor(t)) = 1 /\ Acked(t))
        /\ Acked(t) => Cardinality(PublishedFor(t)) = 1

\* C2: no failure raised while a message is processed leaves the dispatcher
\* callback, so the consume loop is never stopped by a message.
C2_NoFailureEscapes ==
    /\ pc # "RAISED"
    /\ escaped = NoExc
    /\ phase # "stopped"

\* C3: a payload that fails to decode is answered with MALFORMED_REQUEST,
\* value absent and no details, and no handler is invoked for it.
C3_DecodeFailureRepliesMalformed ==
    (pc \in {"REPLIED", "ACKNOWLEDGED"} /\ TryDecode(raw_body).kind = "raise")
        => /\ RepliedWith(cur.delivery_tag, Response(None, MALFORMED_REQUEST, None))
           /\ InvokedFor(cur.delivery_tag) = {}

\* C4: when the handler raises RemoteExecErrorException, the message is
\* answered with the reported code and details, value absent, and is
\* acknowledged.
C4_ExecErrorReplied ==
    \A i \in 1..Len(invoked) :
        LET e == invoked[i] IN
        (/\ e.result.kind = "raise"
         /\ IsInstance(e.result.exc, "RemoteExecErrorException")
         /\ Finished(e.delivery_tag))
            => /\ RepliedWith(e.delivery_tag,
                      Response(None, e.result.exc.code, Some(e.result.exc._details)))
               /\ Acked(e.delivery_tag)

\* C5: register_handler for a (method, version) that already has a handler
\* returns normally, keeps the handler installed and makes no new binding.
C5_DuplicateRegistrationKeepsFirst ==
    [][\A m \in Methods, v \in Versions, f \in Callables :
          (<<m, v>> \in Entries(queues) /\ register_handler(m, v, f))
              => /\ regResult' = "returned"
                 /\ queues' = queues
                 /\ bindings' = bindings]_vars

\* A handler invocation that ended by raising an exception of class cls.
RaisedA(e, cls) == e.result.kind = "raise" /\ IsInstance(e.result.exc, cls)

\* C6 as stated: a handler failure other than a remote-execution error is
\* answered with UNEXPECTED_DISPATCH_EXCEPTION, value absent and details that
\* are not empty, and the message is acknowledged.
C6_HandlerFailureNonEmptyDetails ==
    \A i \in 1..Len(invoked) :
        LET e == invoked[i] IN
        (/\ e.result.kind = "raise"
         /\ ~RaisedA(e, "RemoteExecErrorException")
         /\ Finished(e.delivery_tag))
            => /\ Cardinality(PublishedFor(e.delivery_tag)) = 1
               /\ \A j \in PublishedFor(e.delivery_tag) :
                     LET r == ResponseOf(published[j]) IN
                     /\ r.code = UNEXPECTED_DISPATCH_EXCEPTION
                     /\ r.value = None
                     /\ r.details # None
                     /\ r.details # Some("")
               /\ Acked(e.delivery_tag)

\* C6, amended: a handler failure that is an Exception, and neither a
\* RemoteExecErrorException nor a DispatchHandlerException, is answered with
\* UNEXPECTED_DISPATCH_EXCEPTION, value absent and details str(ex), which may
\* be the empty string; the message is acknowledged.
C6_HandlerFailureStringified ==
    \A i \in 1..Len(invoked) :
        LET e == invoked[i] IN
        (/\ RaisedA(e, "Exception")
         /\ ~RaisedA(e, "RemoteExecErrorException")
         /\ ~RaisedA(e, "DispatchHandlerException")
         /\ Finished(e.delivery_tag))
            => /\ RepliedWith(e.delivery_tag,
                      Response(None, UNEXPECTED_DISPATCH_EXCEPTION,
                               Some(e.result.exc.str)))
               /\ Acked(e.delivery_tag)

\* A handler failed an assertion without a message and the reply carries the
\* empty string as its details.
C6_Witness ==
    \E i \in 1..Len(invoked) :
        /\ RaisedA(invoked[i], "AssertionError")
        /\ Acked(invoked[i].delivery_tag)
        /\ RepliedWith(invoked[i].delivery_tag,
               Response(None, UNEXPECTED_DISPATCH_EXCEPTION, Some("")))

\* The message being dispatched decoded to a Request whose version has no
\* handler under the queue's registered method.
VersionMissing ==
    LET r == TryDecode(raw_body) IN
    /\ pc \notin {"idle", "RECEIVED", "DECODED"}
    /\ r.kind = "return"
    /\ method_name \in DOMAIN queues
    /\ r.value.version \notin DOMAIN queues[method_name]

\* C7: a well-formed request for a registered method whose version has no
\* handler is answered with VERSION_NOT_FOUND and value absent, no handler is
\* invoked for it, and it is acknowledged.
C7_UnregisteredVersion ==
    VersionMissing =>
        /\ pc \in {"FAILED", "REPLIED", "ACKNOWLEDGED"}
        /\ resp.code = VERSION_NOT_FOUND /\ resp.value = None
        /\ InvokedFor(cur.delivery_tag) = {}
        /\ pc \in {"REPLIED", "ACKNOWLEDGED"} =>
              /\ Cardinality(PublishedFor(cur.delivery_tag)) = 1
              /\ \A j \in PublishedFor(cur.delivery_tag) :
                    /\ ResponseOf(published[j]).code = VERSION_NOT_FOUND
                    /\ ResponseOf(published[j]).value = None
        /\ pc = "ACKNOWLEDGED" => Acked(cur.delivery_tag)

\* A request for a version without a handler was answered and acknowledged.
C7_Witness ==
    /\ VersionMissing
    /\ pc = "ACKNOWLEDGED"
    /\ Acked(cur.delivery_tag)
    /\ \E j \in PublishedFor(cur.delivery_tag) :
          ResponseOf(published[j]).code = VERSION_NOT_FOUND

\* C9: when the handler registered for the request's version returns v, the
\* reply is SUCCESS with value v and no details; a handler that returns its
\* argument x answers the request's x.
C9_ReturnValueRepliedSuccess ==
    /\ \A i \in 1..Len(invoked) :
          LET e == invoked[i] IN
          (e.result.kind = "return" /\ Finished(e.delivery_tag))
              => RepliedWith(e.delivery_tag, Response(e.result.value, SUCCESS, None))
    /\ pc = "EXECUTED" =>
          /\ fn = queues[method_name][request.version]
          /\ resp = Response(Some(Get(request.arguments, "x")), SUCCESS, None)

\* A handler returned 42 for a request with x = 42 and SUCCESS with value 42
\* was published.
C9_Witness ==
    \E i \in 1..Len(invoked) :
        /\ invoked[i].result = Return(Some(42))
        /\ Finished(invoked[i].delivery_tag)
        /\ RepliedWith(invoked[i].delivery_tag, Response(Some(42), SUCCESS, None))

\* C10: every reply is published to the reply address of the message it
\* answers, with that message's correlation token, and with those of no
\* other message.
C10_ReplyRouting ==
    \A i \in 1..Len(published) :
        LET p == published[i] IN
        /\ p.delivery_tag \in Tags
        /\ p.routing_key = delivered[p.delivery_tag].reply_to
        /\ p.correlation_id = delivered[p.delivery_tag].correlation_id
        /\ \A t \in Tags \ {p.delivery_tag} :
              /\ p.routing_key # delivered[t].reply_to
              /\ p.correlation_id # delivered[t].correlation_id

\* Two messages with different reply addresses have both been answered.
C10_Witness ==
    /\ Len(published) = 2
    /\ published[1].delivery_tag # published[2].delivery_tag
    /\ published[1].routing_key # published[2].routing_key

\* C11: a message is acknowledged only after its Response was published; no
\* delivery tag is acknowledged that has no published reply.
C11_ReplyBeforeAck ==
    /\ \A i \in 1..Len(acked) : acked[i] \in Tags
    /\ \A t \in Tags : Acked(t) => PublishedFor(t) # {}
    /\ pc = "REPLIED" => (PublishedFor(cur.delivery_tag) # {} /\ ~Acked(cur.delivery_tag))

\* A message was answered and then acknowledged.
C11_Witness ==
    /\ pc = "ACKNOWLEDGED"
    /\ Acked(cur.delivery_tag)
    /\ PublishedFor(cur.delivery_tag) # {}

\* C12: register_handler with a handler that is not invocable raises
\* HandlerNotCallableException and leaves the registry and the bindings as
\* they were, whether or not the method name is registered already.
C12_NotCallableRejected ==
    [][\A m \in Methods, v \in Versions, f \in Handlers \ Callables :
          register_handler(m, v, f)
              => /\ regResult' = "HandlerNotCallableException"
                 /\ queues' = queues
                 /\ bindings' = bindings]_vars

\* A call with a handler that is not invocable was just rejected while every
\* method name is registered.
C12_Witness ==
    /\ regResult = "HandlerNotCallableException"
    /\ DOMAIN queues = Methods
    /\ \A m \in Methods : bindings[m] = 1

\* Every method name with a registered version has exactly one binding, and
\* a method name without one has none.
OneBindingPerMethod ==
    \A m \in Methods :
        /\ m \in DOMAIN queues => (DOMAIN queues[m] # {} /\ bindings[m] = 1)
        /\ m \notin DOMAIN queues => bindings[m] = 0

\* A register_handler step: the first registration of a method name makes
\* its binding; a further version of a registered method name is added with
\* no new binding and with the other handlers of the registry as they were.
RegistrationStep ==
    \A m \in Methods, v \in Versions, f \in Callables :
        register_handler(m, v, f) =>
            /\ m \notin DOMAIN queues =>
                  /\ bindings' = [bindings EXCEPT ![m] = 1]
                  /\ Entries(queues') = Entries(queues) \cup {<<m, v>>}
            /\ (m \in DOMAIN queues /\ v \notin DOMAIN queues[m]) =>
                  /\ bindings' = bindings
                  /\ Entries(queues') = Entries(queues) \cup {<<m, v>>}
                  /\ queues'[m][v] = f
            /\ \A e \in Entries(queues) : queues'[e[1]][e[2]] = queues[e[1]][e[2]]

\* C13: after any sequence of register_handler calls every registered method
\* name has exactly one binding, made by its first registration; further
\* versions add their entry without another binding and without changing
\* the other versions' handlers.
C13_OneBindingPerMethod == []OneBindingPerMethod /\ [][RegistrationStep]_vars

\* A method name has two versions registered and one binding.
C13_Witness ==
    \E m \in Methods :
        /\ m \in DOMAIN queues
        /\ DOMAIN queues[m] = Versions
        /\ bindings[m] = 1

\* C14: every published Response has no details when its code is SUCCESS
\* and no value when its code is not SUCCESS.
C14_ValueOnlyOnSuccess ==
    \A i \in 1..Len(published) :
        LET r == ResponseOf(published[i]) IN
        /\ r.code = SUCCESS => r.details = None
        /\ r.code # SUCCESS => r.value = None

\* A SUCCESS reply that carries a value and a failure reply that carries
\* details have both been published.
C14_Witness ==
    /\ \E i \in 1..Len(published) :
          LET r == ResponseOf(published[i]) IN
          r.code = SUCCESS /\ r.value # None /\ r.details = None
    /\ \E i \in 1..Len(published) :
          LET r == ResponseOf(published[i]) IN
          r.code # SUCCESS /\ r.value = None /\ r.details # None

\* ------------------------------------------------- the envelope taken alone

\* The Requests a client may build and the payloads Request.loads may be
\* given: payloads the serializer rejects (with ValueError or TypeError, the
\* failures Request.loads expects of a serializer), lists of zero to four
\* items, and a value that is not a sequence.
CodecRequests ==
    { Request(v, md, a) :
        v \in Versions,
        md \in {{}, {<<"trace", 7>>}},
        a \in {{}, Args, {<<"x", 42>>, <<"y", 7>>}} }

CodecPayloads ==
    { Garbage,
      [parse |-> "TypeError", kind |-> "none", items |-> <<>>],
      Packed("int", <<>>),
      Packed("list", <<>>),
      Packed("list", <<1>>),
      Packed("list", <<1, {}>>),
      Packed("list", <<1, {}, Args>>),
      Packed("list", <<1, {}, Args, "extra">>) }

CodecInit ==
    /\ InitServer
    /\ codec \in { [pc |-> "start", request |-> r, payload |-> p, result |-> NoLoad] :
                     r \in CodecRequests, p \in CodecPayloads }

serverVars == <<queues, bindings, regResult, phase, pc, delivered, method_name,
                raw_body, request, fn, resp, invoked, published, acked, escaped>>

\* request.dumps(serializer): the payload becomes the encoded Request.
dumps ==
    /\ codec.pc = "start"
    /\ codec' = [codec EXCEPT !.pc = "dumped",
                              !.payload = Request_dumps(codec.request)]
    /\ UNCHANGED serverVars

\* Request.loads(payload, serializer), on the payload given at the start or
\* on the one dumps produced.
loads ==
    /\ codec.pc \in {"start", "dumped"}
    /\ codec' = [codec EXCEPT !.pc = IF codec.pc = "dumped" THEN "roundtrip"
                                     ELSE "loaded",
                              !.result = Request_loads(codec.payload)]
    /\ UNCHANGED serverVars

CodecNext ==
    \/ dumps
    \/ loads

SpecCodec == CodecInit /\ [][CodecNext]_vars

\* Request.loads returned a Request / raised MalformedRequestException.
LoadedRequest == codec.result.kind = "return"
LoadedMalformed ==
    /\ codec.result.kind = "raise"
    /\ codec.result.exc.cls = "MalformedRequestException"

\* C15: Request.loads of Request(version, metadata, arguments).dumps gives a
\* Request with the same version, metadata and arguments.
C15_RoundTrip ==
    codec.pc = "roundtrip" =>
        /\ LoadedRequest
        /\ codec.result.value.version = codec.request.version
        /\ codec.result.value.metadata = codec.request.metadata
        /\ codec.result.value.arguments = codec.request.arguments

\* A Request with metadata and two arguments went through dumps and loads.
C15_Witness ==
    /\ codec.pc = "roundtrip"
    /\ codec.request = Request(2, {<<"trace", 7>>}, {<<"x", 42>>, <<"y", 7>>})
    /\ codec.result = Return(codec.request)

\* The payload given to loads was rejected by the serializer / parsed to a
\* list of n items.
Unparseable(p) == p.parse \in {"ValueError", "TypeError"}
ParsedList(p) == p.parse = "ok" /\ serializer_loads(p).kind = "list"
ParsedLen(p) == Len(serializer_loads(p).items)

\* C16: Request.loads raises MalformedRequestException, and returns no
\* Request, when the serializer cannot parse the payload or the payload
\* parses to a list of fewer than three items.
C16_ShortOrUnparseableIsMalformed ==
    (/\ codec.pc = "loaded"
     /\ \/ Unparseable(codec.payload)
        \/ ParsedList(codec.payload) /\ ParsedLen(codec.payload) < 3)
    => (LoadedMalformed /\ ~LoadedRequest)

\* loads was given a list of two items and raised MalformedRequestException.
C16_Witness ==
    /\ codec.pc = "loaded"
    /\ ParsedList(codec.payload)
    /\ ParsedLen(codec.payload) = 2
    /\ LoadedMalformed

\* C17: Request.loads returns a Request only for a payload that parses to
\* exactly three items; a payload of more than three items, or one that is
\* not a sequence, raises MalformedRequestException.
C17_ExactlyThreeItems ==
    codec.pc = "loaded" =>
        /\ LoadedRequest =>
              (ParsedList(codec.payload) /\ ParsedLen(codec.payload) = 3)
        /\ (/\ codec.payload.parse = "ok"
            /\ \/ ~ParsedList(codec.payload)
               \/ ParsedLen(codec.payload) > 3)
           => LoadedMalformed

\* The handler invocations conform to the look-up: at most one per message,
\* and the one made for the message being dispatched happened after its
\* payload decoded and called the handler registered for the queue's method
\* name and the request's version.
InvokedAsResolved ==
    /\ \A t \in Tags : Cardinality(InvokedFor(t)) <= 1
    /\ \A i \in 1..Len(invoked) :
          invoked[i].delivery_tag = Len(delivered) =>
             LET r == TryDecode(raw_body) IN
             /\ pc \notin {"idle", "RECEIVED", "DECODED", "RESOLVED"}
             /\ r.kind = "return"
             /\ <<method_name, r.value.version>> \in Entries(queues)
             /\ invoked[i].fn = queues[method_name][r.value.version]

\* The order of the states of a message: one stage after the other, a
\* failure of a stage going to the reply ("FAILED" is a failed stage whose
\* Response waits to be published).
LifecycleOrder ==
    { <<"idle", "RECEIVED">>, <<"ACKNOWLEDGED", "RECEIVED">>,
      <<"RECEIVED", "DECODED">>, <<"RECEIVED", "FAILED">>,
      <<"DECODED", "RESOLVED">>, <<"DECODED", "FAILED">>,
      <<"RESOLVED", "EXECUTED">>, <<"RESOLVED", "FAILED">>,
      <<"EXECUTED", "REPLIED">>, <<"FAILED", "REPLIED">>,
      <<"REPLIED", "ACKNOWLEDGED">> }

LifecycleStep ==
    /\ pc' # pc => <<pc, pc'>> \in LifecycleOrder
    /\ InvokedAsResolved'

\* C18: every step of a message goes from one stage to the next in the order
\* RECEIVED, DECODED, RESOLVED, EXECUTED, REPLIED, ACKNOWLEDGED, a failure
\* going forward to REPLIED; a handler is invoked at most once per message,
\* after the decode and the look-up succeeded, and it is the handler
\* registered for the queue's method name and the request's version.
C18_Lifecycle == [][LifecycleStep]_vars

\* Every method name with a consumer has handlers in the registry.
BoundMethodsRegistered ==
    \A m \in Methods :
        bindings[m] > 0 => (m \in DOMAIN queues /\ DOMAIN queues[m] # {})

\* No dispatcher took the METHOD_NOT_FOUND branch: the method name of a
\* running or finished dispatcher is a key of the registry, and no Response
\* built or published has that code.
NoMethodNotFound ==
    /\ pc # "idle" => method_name \in DOMAIN queues
    /\ resp.code # METHOD_NOT_FOUND
    /\ \A i \in 1..Len(published) :
          ResponseOf(published[i]).code # METHOD_NOT_FOUND

\* A step of a dispatcher, from the delivery to the acknowledgement.
DispatchStep ==
    \/ \E q \in Methods, b \in Bodies : Deliver(q, b)
    \/ Decode
    \/ Resolve
    \/ Execute
    \/ Publish
    \/ Ack

\* No step removes an entry of the registry, and a dispatcher step leaves
\* the registry as it is.
RegistryStep ==
    /\ Entries(queues) \subseteq Entries(queues')
    /\ DOMAIN queues \subseteq DOMAIN queues'
    /\ DispatchStep => UNCHANGED registryVars

\* C19: in every reachable state a method name that has a dispatcher has a
\* non-empty version map in the registry, no dispatcher takes the
\* METHOD_NOT_FOUND branch, and dispatching leaves the registry unchanged.
C19_BoundMethodsRegistered ==
    /\ [](BoundMethodsRegistered /\ NoMethodNotFound)
    /\ [][RegistryStep]_vars

\* A message of a bound method queue was dispatched to its acknowledgement.
C19_Witness ==
    /\ pc = "ACKNOWLEDGED"
    /\ bindings[method_name] = 1
    /\ method_name \in DOMAIN queues
    /\ Len(published) = Len(delivered)

====
